---------------------------- MODULE Spec2Model ----------------------------
(***************************************************************************)
(* A model of app.py: the line-by-line annotation pipeline                 *)
(* (process_text_line_by_line and the routes that call it) and the export  *)
(* regeneration of download_corrected.                                     *)
(*                                                                         *)
(* Text is a sequence of one-character strings.  The Python string and     *)
(* regular-expression primitives the code uses (strip, lower, split,       *)
(* replace, re.search, re.sub, markupsafe.escape) are operators that       *)
(* compute what the library computes.                                      *)
(*                                                                         *)
(* Requests are those that passed require_api_key and the rate limiter.    *)
(***************************************************************************)
EXTENDS Integers, Sequences, FiniteSets, TLC

VARIABLES
    pc,            \* "idle", "processing", "done", "aborted", "error"
    status,        \* HTTP status of the response (0: none yet)
    form,          \* the request's form fields
    mode,          \* the request's mode
    text,          \* the text the route hands to the size check
    lines,         \* text.split("\n") of process_text_line_by_line
    final_html,    \* final_html of process_text_line_by_line
    results,       \* per processed line: what the loop body computed
    calls,         \* the adapter functions invoked, with the line's index
    lt_cache,      \* lt_cache
    groq_cache,    \* groq_cache
    groq_client,   \* whether groq_client was initialised
    final_text,    \* download_corrected: final_text
    replacements,  \* download_corrected: replacements
    doc,           \* download_corrected: the paragraphs of doc
    rematched,     \* whether a record matched text a previous record put
    prev_doc,      \* the paragraphs of the previous download
    passes         \* number of downloads made

vars == <<pc, status, form, mode, text, lines, final_html, results,
          calls, lt_cache, groq_cache, groq_client,
          final_text, replacements, doc, rematched, prev_doc, passes>>

-----------------------------------------------------------------------------
(* Bounds of the model *)

MaxTokens == 3       \* tokens in a request text of Spec
MaxRefTokens == 2    \* tokens in a request text of SpecVerbatim
MaxTextLen == 3      \* characters of final_text in a download
MaxReps == 2         \* records in a replacement list
MaxNewLen == 2       \* characters in a record's "new"
MaxPasses == 2       \* downloads in a row

(* MAX_TEXT_CHARS is read from the environment (default 12000); the model  *)
(* is of a deployment that sets it to 20.                                  *)
MAX_TEXT_CHARS == 20

-----------------------------------------------------------------------------
(* Characters and Python string primitives *)

LowerLetters == <<"a","b","c","d","e","f","g","h","i","j","k","l","m","n","o","p","q","r","s","t","u","v","w","x","y","z">>

UpperLetters == <<"A","B","C","D","E","F","G","H","I","J","K","L","M","N","O","P","Q","R","S","T","U","V","W","X","Y","Z">>

Digits == {"0","1","2","3","4","5","6","7","8","9"}

Whitespace == {" ", "\t", "\r", "\n"}

Range(f) == {f[i] : i \in DOMAIN f}

UpperSet == Range(UpperLetters)

LowerSet == Range(LowerLetters)

LowerOf == [c \in UpperSet |-> LowerLetters[CHOOSE i \in 1..26 : UpperLetters[i] = c]]

\* str.lower() of one character
Lower(c) == IF c \in UpperSet THEN LowerOf[c] ELSE c

\* str.lower()
LowerStr(s) == [i \in 1..Len(s) |-> Lower(s[i])]

WordChars == Range(LowerLetters) \cup Range(UpperLetters) \cup Digits \cup {"_"}

\* the regular expression class \w
IsWordChar(c) == c \in WordChars

SetMin(S) == CHOOSE x \in S : \A y \in S : x <= y

SetMax(S) == CHOOSE x \in S : \A y \in S : x >= y

\* str.strip()
Strip(s) ==
    LET keep == {i \in 1..Len(s) : s[i] \notin Whitespace}
    IN  IF keep = {} THEN <<>> ELSE SubSeq(s, SetMin(keep), SetMax(keep))

\* s[i-1 : i-1+len(pat)] == pat, with i counted from 1
MatchAt(s, pat, i) ==
    /\ i >= 1
    /\ i + Len(pat) - 1 <= Len(s)
    /\ \A k \in 1..Len(pat) : s[i + k - 1] = pat[k]

\* the same, ignoring case (re.IGNORECASE)
MatchAtCI(s, pat, i) ==
    /\ i >= 1
    /\ i + Len(pat) - 1 <= Len(s)
    /\ \A k \in 1..Len(pat) : Lower(s[i + k - 1]) = Lower(pat[k])

\* pat in s
Contains(s, pat) == \E i \in 1..(Len(s) + 1) : MatchAt(s, pat, i)

\* the regular expression assertion \b before the character at position i
WordBoundary(s, i) ==
    LET w(k) == k >= 1 /\ k <= Len(s) /\ IsWordChar(s[k])
    IN  w(i - 1) # w(i)

\* rf"\b{re.escape(pat)}\b" with re.IGNORECASE matches s at position i
WordMatchAt(s, pat, i) ==
    /\ Len(pat) > 0
    /\ MatchAtCI(s, pat, i)
    /\ WordBoundary(s, i)
    /\ WordBoundary(s, i + Len(pat))

\* re.search of that pattern from position i on: the position of the
\* leftmost match, 0 for None
ReSearchWordFrom(s, pat, i) ==
    LET found == {k \in i..Len(s) : WordMatchAt(s, pat, k)}
    IN  IF found = {} THEN 0 ELSE SetMin(found)

ReSearchWord(s, pat) == ReSearchWordFrom(s, pat, 1)

\* re.sub of that pattern from position i on: every match, left to right,
\* none overlapping another, replaced by correct
RECURSIVE ReSubFrom(_, _, _, _)
ReSubFrom(s, wrong, correct, i) ==
    IF i > Len(s) THEN <<>>
    ELSE IF WordMatchAt(s, wrong, i)
         THEN correct \o ReSubFrom(s, wrong, correct, i + Len(wrong))
         ELSE <<s[i]>> \o ReSubFrom(s, wrong, correct, i + 1)

ReSub(s, wrong, correct) == ReSubFrom(s, wrong, correct, 1)

\* str.split("\n")
RECURSIVE SplitFrom(_, _, _)
SplitFrom(s, i, cur) ==
    IF i > Len(s) THEN <<cur>>
    ELSE IF s[i] = "\n" THEN <<cur>> \o SplitFrom(s, i + 1, <<>>)
         ELSE SplitFrom(s, i + 1, Append(cur, s[i]))

Split(s) == SplitFrom(s, 1, <<>>)

\* "\n".join(parts)
RECURSIVE Join(_)
Join(parts) ==
    IF Len(parts) = 0 THEN <<>>
    ELSE IF Len(parts) = 1 THEN parts[1]
         ELSE parts[1] \o <<"\n">> \o Join(Tail(parts))

\* all sequences over S of length at most n
SeqsUpTo(S, n) == UNION {[1..k -> S] : k \in 0..n}

\* the concatenation of a sequence of sequences
RECURSIVE Concat(_)
Concat(ss) == IF Len(ss) = 0 THEN <<>> ELSE ss[1] \o Concat(Tail(ss))

-----------------------------------------------------------------------------
(* Escaping, the line classifier and the dictionary *)

\* markupsafe.escape of one character
EscapeChar(c) ==
    CASE c = "&" -> <<"&","a","m","p",";">>
      [] c = "<" -> <<"&","l","t",";">>
      [] c = ">" -> <<"&","g","t",";">>
      [] c = "'" -> <<"&","#","3","9",";">>
      [] c = "\"" -> <<"&","#","3","4",";">>
      [] OTHER -> <<c>>

\* markupsafe.escape
escape(s) == Concat([i \in 1..Len(s) |-> EscapeChar(s[i])])

\* re.match(r"^\[\d+\]$", s)
BracketNumeral(s) ==
    /\ Len(s) >= 3
    /\ s[1] = "["
    /\ s[Len(s)] = "]"
    /\ \A i \in 2..(Len(s) - 1) : s[i] \in Digits

\* re.match(r"^\(.+\d{4}.*\)$", s)
ParenYear(s) ==
    /\ Len(s) >= 7
    /\ s[1] = "("
    /\ s[Len(s)] = ")"
    /\ \E i \in 3..(Len(s) - 4) : \A k \in i..(i + 3) : s[k] \in Digits

\* is_reference_like with "doi" in s, the lower() forgotten
is_reference_like_case(line) ==
    LET s == Strip(line)
    IN  \/ s = <<>>
        \/ Contains(s, <<"h","t","t","p">>)
        \/ Contains(s, <<"w","w","w",".">>)
        \/ Contains(s, <<"d","o","i">>)
        \/ BracketNumeral(s)
        \/ ParenYear(s)

is_reference_like(line) ==
    LET s == Strip(line)
    IN  \/ s = <<>>
        \/ Contains(s, <<"h","t","t","p">>)
        \/ Contains(s, <<"w","w","w",".">>)
        \/ Contains(LowerStr(s), <<"d","o","i">>)
        \/ BracketNumeral(s)
        \/ ParenYear(s)

\* LEGAL_FIX, in the order of the dict
LEGAL_FIX == <<
    [wrong |-> <<"s","u","o"," ","m","o","t","o">>,
     correct |-> <<"s","u","o"," ","m","o","t","u">>],
    [wrong |-> <<"p","r","i","m","a"," ","f","a","c","i","a">>,
     correct |-> <<"p","r","i","m","a"," ","f","a","c","i","e">>],
    [wrong |-> <<"m","e","n","s"," ","r","e","a","a">>,
     correct |-> <<"m","e","n","s"," ","r","e","a">>],
    [wrong |-> <<"r","a","t","i","o"," ","d","e","c","e","d","e","n","d","i">>,
     correct |-> <<"r","a","t","i","o"," ","d","e","c","i","d","e","n","d","i">>],
    [wrong |-> <<"a","u","d","i"," ","a","l","t","e","r","a","m"," ","p","a","r","t","u","m">>,
     correct |-> <<"a","u","d","i"," ","a","l","t","e","r","a","m"," ","p","a","r","t","e","m">>] >>

\* normalize_key
normalize_key(word) ==
    LET isKept(c) == c \in LowerSet \cup Whitespace
    IN  SelectSeq(LowerStr(Strip(word)), isKept)

\* BLACKLAW: blacklaw_terms.json as loaded, here a file that holds one term
BLACKLAW ==
    [k \in {<<"s","u","o"," ","m","o","t","u">>} |->
        <<"o","n"," ","i","t","s"," ","o","w","n"," ","m","o","t","i","o","n">>]

\* BLACKLAW.get(key, "")
BlacklawGet(key) == IF key \in DOMAIN BLACKLAW THEN BLACKLAW[key] ELSE <<>>

\* detect_legal, from entry k of LEGAL_FIX on
RECURSIVE DetectLegalFrom(_, _)
DetectLegalFrom(sentence, k) ==
    IF k > Len(LEGAL_FIX) THEN <<>>
    ELSE (IF ReSearchWord(sentence, LEGAL_FIX[k].wrong) # 0
          THEN <<[wrong |-> LEGAL_FIX[k].wrong,
                  correct |-> LEGAL_FIX[k].correct,
                  meaning |-> BlacklawGet(normalize_key(LEGAL_FIX[k].correct))]>>
          ELSE <<>>)
         \o DetectLegalFrom(sentence, k + 1)

detect_legal(sentence) == DetectLegalFrom(sentence, 1)

-----------------------------------------------------------------------------
(* The grammar service and the suggester *)

\* a cache with key k set to v
Put(cache, k, v) == [x \in DOMAIN cache \cup {k} |-> IF x = k THEN v ELSE cache[x]]

\* what the grammar service may answer: the request fails (timeout,
\* transport error, HTTP error, a body that is not JSON), or the body is
\* JSON that is not an object, or an object whose matches may lack a key
LtMatch(offset, length) == [offset |-> offset, length |-> length, has_length |-> TRUE]

LtResponses ==
    {[kind |-> "exception"], [kind |-> "json", type |-> "list", matches |-> <<>>]}
        \cup {[kind |-> "json", type |-> "dict", matches |-> ms] :
                ms \in { <<>>,
                         <<LtMatch(0, 0)>>,
                         <<LtMatch(0, 4)>>,
                         <<LtMatch(0, 5)>>,
                         <<LtMatch(0, 4), LtMatch(0, 5)>>,
                         <<[offset |-> 0, length |-> 0, has_length |-> FALSE]>> }}

\* lt_check_sentence reaches the request to the grammar service
LtAsked(sentence) == Strip(sentence) # <<>> /\ Strip(sentence) \notin DOMAIN lt_cache

\* lt_check_sentence: the value returned and the cache afterwards
lt_check_sentence(sentence, resp) ==
    LET s == Strip(sentence)
        out == IF resp.kind = "exception"
               THEN [type |-> "dict", matches |-> <<>>]
               ELSE [type |-> resp.type, matches |-> resp.matches]
    IN  IF s = <<>> THEN [out |-> [type |-> "dict", matches |-> <<>>], cache |-> lt_cache]
        ELSE IF s \in DOMAIN lt_cache THEN [out |-> lt_cache[s], cache |-> lt_cache]
        ELSE [out |-> out, cache |-> Put(lt_cache, s, out)]

\* working[offset : offset + length]
Slice(working, offset, length) ==
    SubSeq(working, offset + 1, IF offset + length <= Len(working)
                                THEN offset + length ELSE Len(working))

\* the loop over lt_res.get("matches", []): the flagged substrings, each with
\* the match it was sliced by
RECURSIVE LtWrongWords(_, _)
LtWrongWords(working, matches) ==
    IF Len(matches) = 0 THEN <<>>
    ELSE LET m == matches[1]
             wrong == Slice(working, m.offset, m.length)
         IN  (IF Strip(wrong) # <<>> THEN <<[word |-> wrong, m |-> m]>> ELSE <<>>)
             \o LtWrongWords(working, Tail(matches))

\* the loop raises: lt_res is no dict, or a match lacks a key
LtLoopRaises(lt_res) ==
    \/ lt_res.type # "dict"
    \/ \E i \in 1..Len(lt_res.matches) : ~lt_res.matches[i].has_length

\* list(dict.fromkeys(ws)): the first occurrence of each element
RECURSIVE Dedupe(_, _)
Dedupe(ws, seen) ==
    IF Len(ws) = 0 THEN <<>>
    ELSE IF ws[1] \in seen THEN Dedupe(Tail(ws), seen)
         ELSE <<ws[1]>> \o Dedupe(Tail(ws), seen \cup {ws[1]})

\* what the suggester may answer: the call or the parsing of the output
\* fails, the output holds no array, or it holds an array of items
GroqItem(wrong, suggestion) == [wrong |-> wrong, suggestion |-> suggestion]

GroqArrays ==
    { <<>>,
      <<GroqItem(<<"d","o","n","t">>, <<"x">>)>>,
      <<GroqItem(<<"d","o","n","t">>, <<"D","O","N","T">>)>>,
      <<GroqItem(<<"m","o","t","o">>, <<"x">>)>>,
      <<GroqItem(<<"a","m","p">>, <<"x">>)>>,
      <<GroqItem(<<"d","o","n","t">>, <<"x">>), GroqItem(<<"s","p","a","n">>, <<"x">>)>> }

GroqResponses ==
    {[kind |-> "exception", items |-> <<>>], [kind |-> "no_array", items |-> <<>>]}
        \cup {[kind |-> "array", items |-> it] : it \in GroqArrays}

\* the loop that builds cleaned
RECURSIVE Cleaned(_)
Cleaned(arr) ==
    IF Len(arr) = 0 THEN <<>>
    ELSE LET w == Strip(arr[1].wrong)
             s == Strip(arr[1].suggestion)
         IN  (IF w # <<>> /\ s # <<>> /\ LowerStr(w) # LowerStr(s)
              THEN <<[wrong |-> w, suggestion |-> s]>> ELSE <<>>)
             \o Cleaned(Tail(arr))

\* lt_wrong_words of groq_word_check after the de-duplication
GroqWords(lt_wrong_words) ==
    LET isKept(w) == Strip(w) # <<>>
        stripped == SelectSeq(lt_wrong_words, isKept)
    IN  Dedupe([i \in 1..Len(stripped) |-> Strip(stripped[i])], {})

\* cache_key of groq_word_check: the sentence and the lowered words, sorted
\* (each word with the number of times it occurs)
GroqCacheKey(sentence, words) ==
    LET lowered == [i \in 1..Len(words) |-> LowerStr(words[i])]
    IN  [kind |-> "WORD", sentence |-> sentence,
         words |-> {<<w, Cardinality({i \in 1..Len(lowered) : lowered[i] = w})>> :
                       w \in Range(lowered)}]

\* groq_word_check reaches the call of the suggester
GroqAsked(sentence, lt_wrong_words) ==
    /\ groq_client
    /\ GroqWords(lt_wrong_words) # <<>>
    /\ GroqCacheKey(sentence, GroqWords(lt_wrong_words)) \notin DOMAIN groq_cache

\* groq_word_check: the value returned and the cache afterwards
groq_word_check(sentence, lt_wrong_words, resp) ==
    LET words == GroqWords(lt_wrong_words)
        cache_key == GroqCacheKey(sentence, words)
    IN  IF ~groq_client \/ lt_wrong_words = <<>> \/ words = <<>>
        THEN [out |-> <<>>, cache |-> groq_cache]
        ELSE IF cache_key \in DOMAIN groq_cache
        THEN [out |-> groq_cache[cache_key], cache |-> groq_cache]
        ELSE IF resp.kind = "exception" THEN [out |-> <<>>, cache |-> groq_cache]
        ELSE IF resp.kind = "no_array"
        THEN [out |-> <<>>, cache |-> Put(groq_cache, cache_key, <<>>)]
        ELSE [out |-> Cleaned(resp.items),
              cache |-> Put(groq_cache, cache_key, Cleaned(resp.items))]

\* what the suggester may answer to a rewrite: the call fails, or an output
RewriteResponses ==
    {[kind |-> "exception", out |-> <<>>], [kind |-> "text", out |-> <<>>],
     [kind |-> "text", out |-> <<"o","k","&">>]}

\* groq_rewrite_sentence reaches the call of the suggester
RewriteAsked(sentence) ==
    /\ groq_client
    /\ Strip(sentence) # <<>>
    /\ [kind |-> "REWRITE", sentence |-> Strip(sentence), words |-> {}] \notin DOMAIN groq_cache

\* groq_rewrite_sentence: the value returned and the cache afterwards
groq_rewrite_sentence(sentence, resp) ==
    LET s == Strip(sentence)
        cache_key == [kind |-> "REWRITE", sentence |-> s, words |-> {}]
        out == IF Strip(resp.out) = <<>> THEN s ELSE Strip(resp.out)
    IN  IF ~groq_client THEN [out |-> sentence, cache |-> groq_cache]
        ELSE IF s = <<>> THEN [out |-> s, cache |-> groq_cache]
        ELSE IF cache_key \in DOMAIN groq_cache
        THEN [out |-> groq_cache[cache_key], cache |-> groq_cache]
        ELSE IF resp.kind = "exception" THEN [out |-> s, cache |-> groq_cache]
        ELSE [out |-> out, cache |-> Put(groq_cache, cache_key, out)]

-----------------------------------------------------------------------------
(* process_text_line_by_line: the merge and the rendering of one line *)

\* the position of the leftmost occurrence of pat in s from position i on,
\* 0 if there is none
FindFrom(s, pat, i) ==
    LET found == {k \in i..(Len(s) - Len(pat) + 1) : MatchAt(s, pat, k)}
    IN  IF found = {} THEN 0 ELSE SetMin(found)

Find(s, pat) == FindFrom(s, pat, 1)

\* combined after the loop over legal_hits
LegalCombined(legal_hits) ==
    [i \in 1..Len(legal_hits) |->
        [key |-> LowerStr(legal_hits[i].wrong), original |-> legal_hits[i].wrong,
         black |-> legal_hits[i].correct, groq |-> <<>>, meaning |-> legal_hits[i].meaning]]

\* one turn of the loop over groq_hits
AddGroqHit(combined, working, g) ==
    LET wrong_raw == Strip(g.wrong)
        suggestion == Strip(g.suggestion)
        key == LowerStr(wrong_raw)
        mm == ReSearchWord(working, wrong_raw)
        original == IF mm # 0 THEN SubSeq(working, mm, mm + Len(wrong_raw) - 1) ELSE wrong_raw
        withKey == IF \E i \in 1..Len(combined) : combined[i].key = key
                   THEN combined
                   ELSE Append(combined, [key |-> key, original |-> original,
                                          black |-> <<>>, groq |-> <<>>, meaning |-> <<>>])
    IN  IF wrong_raw = <<>> \/ suggestion = <<>> THEN combined
        ELSE [i \in 1..Len(withKey) |->
                 IF withKey[i].key = key THEN [withKey[i] EXCEPT !.groq = suggestion]
                 ELSE withKey[i]]

\* the loop over groq_hits
RECURSIVE AddGroqHits(_, _, _)
AddGroqHits(combined, working, groq_hits) ==
    IF Len(groq_hits) = 0 THEN combined
    ELSE AddGroqHits(AddGroqHit(combined, working, groq_hits[1]), working, Tail(groq_hits))

\* the span element built for one entry of combined, up to its content
SpanOpen(data) ==
    <<"<","s","p","a","n"," ","c","l","a","s","s","=","'","g","r","a","m","m","a","r","-","w","r","o","n","g","'"," ","d","a","t","a","-","w","r","o","n","g","=","'">>
    \o escape(data.original)
    \o <<"'"," ","d","a","t","a","-","b","l","a","c","k","=","'">>
    \o escape(data.black)
    \o <<"'"," ","d","a","t","a","-","g","r","o","q","=","'">>
    \o escape(data.groq)
    \o <<"'"," ","d","a","t","a","-","m","e","a","n","i","n","g","=","'">>
    \o escape(data.meaning)
    \o <<"'",">">>

SpanClose == <<"<","/","s","p","a","n",">">>

\* Where the characters of html_line come from.  A character that escapes
\* character src of the line carries src, and whether it is the first and
\* the last character of that escape; a character of inserted markup carries
\* src 0.  el is the span element the character lies in (0: none).
LineOrigins(line) ==
    Concat([i \in 1..Len(line) |->
        LET n == Len(EscapeChar(line[i]))
        IN  [j \in 1..n |-> [src |-> i, first |-> (j = 1), last |-> (j = n), el |-> 0]]])

Markup(n, k) == [j \in 1..n |-> [src |-> 0, first |-> FALSE, last |-> FALSE, el |-> k]]

\* one turn of the rendering loop: html_line.replace(str(ow), span, 1) for
\* entry k of combined; st holds html_line, the origins of its characters
\* and the span elements put so far
RenderEntry(st, data, k) ==
    LET ow == escape(data.original)
        open == SpanOpen(data)
        p == Find(st.html, ow)
        n == Len(st.html)
        hit == SubSeq(st.origin, p, p + Len(ow) - 1)
    IN  IF p = 0 THEN st
        ELSE [html |-> SubSeq(st.html, 1, p - 1) \o open \o ow \o SpanClose
                       \o SubSeq(st.html, p + Len(ow), n),
              origin |-> SubSeq(st.origin, 1, p - 1) \o Markup(Len(open), k)
                         \o [j \in 1..Len(hit) |-> [hit[j] EXCEPT !.el = k]]
                         \o Markup(Len(SpanClose), k)
                         \o SubSeq(st.origin, p + Len(ow), n),
              spans |-> Append(st.spans,
                         [entry |-> k,
                          original |-> data.original,
                          in_markup |-> \E j \in 1..Len(hit) : hit[j].src = 0,
                          nested |-> \E j \in 1..Len(hit) : hit[j].el # 0,
                          whole |-> hit[1].first /\ hit[Len(hit)].last,
                          from |-> hit[1].src,
                          to |-> hit[Len(hit)].src])]

\* the rendering loop, from entry k of combined on
RECURSIVE RenderFrom(_, _, _)
RenderFrom(st, combined, k) ==
    IF k > Len(combined) THEN st
    ELSE RenderFrom(RenderEntry(st, combined[k], k), combined, k + 1)

\* html_line of a line in word mode, with the span elements put into it
Render(line, combined) ==
    RenderFrom([html |-> escape(line), origin |-> LineOrigins(line), spans |-> <<>>],
               combined, 1)

P(html) == <<"<","p",">">> \o html \o <<"<","/","p",">">>

-----------------------------------------------------------------------------
(* process_text_line_by_line: the loop over the lines, one line a step *)

\* the line the loop is at
LineIndex == Len(results) + 1

Line == lines[LineIndex]

\* the loop goes on to the next line, or the route responds
Advance ==
    IF LineIndex = Len(lines)
    THEN pc' = "done" /\ status' = 200
    ELSE UNCHANGED <<pc, status>>

NoResult(line, kind) ==
    [line |-> line, kind |-> kind, lt_matches |-> <<>>, lt_wrong_words |-> <<>>,
     legal_hits |-> <<>>, groq_hits |-> <<>>, combined |-> <<>>, spans |-> <<>>]

\* the answer of a service that is not asked
NotAsked == [kind |-> "exception", out |-> <<>>, items |-> <<>>]

\* if not line.strip()
LineBlank ==
    /\ pc = "processing"
    /\ Strip(Line) = <<>>
    /\ final_html' = Append(final_html, P(<<>>))
    /\ results' = Append(results, NoResult(Line, "blank"))
    /\ Advance
    /\ UNCHANGED <<form, mode, text, lines, calls, lt_cache, groq_cache, groq_client,
                   final_text, replacements, doc, rematched, prev_doc, passes>>

\* if is_reference_like(line)
LineVerbatim ==
    /\ pc = "processing"
    /\ Strip(Line) # <<>>
    /\ is_reference_like(Line)
    /\ final_html' = Append(final_html, P(escape(Line)))
    /\ results' = Append(results, NoResult(Line, "verbatim"))
    /\ Advance
    /\ UNCHANGED <<form, mode, text, lines, calls, lt_cache, groq_cache, groq_client,
                   final_text, replacements, doc, rematched, prev_doc, passes>>

\* if mode == "rewrite"
LineRewrite ==
    /\ pc = "processing"
    /\ Strip(Line) # <<>>
    /\ ~is_reference_like(Line)
    /\ mode = "rewrite"
    /\ \E resp \in (IF RewriteAsked(Line) THEN RewriteResponses ELSE {NotAsked}) :
          LET r == groq_rewrite_sentence(Line, resp)
          IN  /\ groq_cache' = r.cache
              /\ final_html' = Append(final_html, P(escape(r.out)))
    /\ calls' = calls \cup {<<"groq_rewrite_sentence", LineIndex>>}
    /\ results' = Append(results, NoResult(Line, "rewrite"))
    /\ Advance
    /\ UNCHANGED <<form, mode, text, lines, lt_cache, groq_client,
                   final_text, replacements, doc, rematched, prev_doc, passes>>

\* word mode
LineWord ==
    /\ pc = "processing"
    /\ Strip(Line) # <<>>
    /\ ~is_reference_like(Line)
    /\ mode # "rewrite"
    /\ \E lt_resp \in (IF LtAsked(Line) THEN LtResponses ELSE {NotAsked}) :
          LET working == Line
              lt == lt_check_sentence(working, lt_resp)
              lt_res == lt.out
              flagged == LtWrongWords(working, lt_res.matches)
              lt_wrong_words == [i \in 1..Len(flagged) |-> flagged[i].word]
              legal_hits == detect_legal(working)
          IN  /\ lt_cache' = lt.cache
              /\ IF LtLoopRaises(lt_res)
                 THEN \* the exception leaves the route: the response is a 500
                      /\ pc' = "error"
                      /\ status' = 500
                      /\ calls' = calls \cup {<<"lt_check_sentence", LineIndex>>}
                      /\ results' = Append(results,
                             [NoResult(Line, "raised") EXCEPT !.lt_matches = lt_res.matches])
                      /\ UNCHANGED <<final_html, groq_cache>>
                 ELSE \E groq_resp \in (IF GroqAsked(working, lt_wrong_words)
                                        THEN GroqResponses ELSE {NotAsked}) :
                      LET groq == groq_word_check(working, lt_wrong_words, groq_resp)
                          groq_hits == groq.out
                          combined == AddGroqHits(LegalCombined(legal_hits), working, groq_hits)
                          rendered == Render(working, combined)
                      IN  /\ groq_cache' = groq.cache
                          /\ calls' = calls \cup {<<"lt_check_sentence", LineIndex>>,
                                                  <<"detect_legal", LineIndex>>,
                                                  <<"groq_word_check", LineIndex>>}
                          /\ final_html' = Append(final_html, P(rendered.html))
                          /\ results' = Append(results,
                                 [line |-> Line, kind |-> "word",
                                  lt_matches |-> lt_res.matches,
                                  lt_wrong_words |-> flagged, legal_hits |-> legal_hits,
                                  groq_hits |-> groq_hits, combined |-> combined,
                                  spans |-> rendered.spans])
                      /\ Advance
    /\ UNCHANGED <<form, mode, text, lines, groq_client,
                   final_text, replacements, doc, rematched, prev_doc, passes>>

-----------------------------------------------------------------------------
(* The routes that process text *)

Modes == {"word", "rewrite"}

NoFile == [present |-> FALSE, docx |-> FALSE, paragraphs |-> <<>>]

\* the files a request to index may upload: none, or a file whose name ends
\* in .docx or does not, with these paragraphs
Files ==
    {NoFile}
        \cup {[present |-> TRUE, docx |-> FALSE, paragraphs |-> <<>>]}
        \cup {[present |-> TRUE, docx |-> TRUE, paragraphs |-> ps] :
                ps \in { << <<"d","o","n","t">>, <<"[","1","]">>, <<"d","o","n","t">> >>,
                         << <<"s","u","o"," ","m","o","t","o">>, <<"[","1","]">>,
                            <<"s","u","o"," ","m","o","t","o">> >> }}

\* abort(413, ...)
Abort413 ==
    /\ pc' = "aborted"
    /\ status' = 413
    /\ UNCHANGED lines

\* the call of process_text_line_by_line: lines = text.split("\n")
Start(t) ==
    /\ pc' = "processing"
    /\ lines' = Split(t)
    /\ UNCHANGED status

\* what is common to the three routes: the size check, then the processing
Process(t, m) ==
    /\ text' = t
    /\ mode' = m
    /\ IF Len(t) > MAX_TEXT_CHARS THEN Abort413 ELSE Start(t)
    /\ UNCHANGED <<form, final_html, results, calls, lt_cache, groq_cache, groq_client,
                   final_text, replacements, doc, rematched, prev_doc, passes>>

\* index, method POST
index ==
    /\ pc = "idle"
    /\ \E m \in Modes, file \in Files :
          LET text_input == Strip(form.text)
          IN  Process(IF file.present /\ file.docx THEN Join(file.paragraphs) ELSE text_input, m)

\* check_text without its size check
check_text_unchecked ==
    /\ pc = "idle"
    /\ \E m \in Modes :
          /\ text' = form.text
          /\ mode' = m
          /\ Start(form.text)
          /\ UNCHANGED <<form, final_html, results, calls, lt_cache, groq_cache, groq_client,
                         final_text, replacements, doc, rematched, prev_doc, passes>>

check_text ==
    /\ pc = "idle"
    /\ \E m \in Modes : Process(form.text, m)

check_grammar ==
    /\ pc = "idle"
    /\ \E m \in Modes : Process(Strip(form.text), m)

-----------------------------------------------------------------------------
(* download_corrected *)

\* the characters a request's final_text is made of
ExportAlphabet == {"a", "A", "\n"}

\* the characters a replacement record's fields are made of
RecordAlphabet == {"a", "b", "-"}

ExportTexts == SeqsUpTo(ExportAlphabet, MaxTextLen)

ReplacementRecords ==
    [old : {<<"a">>, <<"b">>}, new : SeqsUpTo(RecordAlphabet, MaxNewLen)]

ReplacementLists == SeqsUpTo(ReplacementRecords, MaxReps)

\* the positions of s that re.sub replaces, scanning from position i
RECURSIVE SubMatches(_, _, _)
SubMatches(s, wrong, i) ==
    IF i > Len(s) THEN {}
    ELSE IF WordMatchAt(s, wrong, i)
         THEN {i} \cup SubMatches(s, wrong, i + Len(wrong))
         ELSE SubMatches(s, wrong, i + 1)

\* for the text re.sub returns: the record that put each character (0: none)
RECURSIVE SubBy(_, _, _, _, _, _)
SubBy(s, by, wrong, correct, k, i) ==
    IF i > Len(s) THEN <<>>
    ELSE IF WordMatchAt(s, wrong, i)
         THEN [j \in 1..Len(correct) |-> k] \o SubBy(s, by, wrong, correct, k, i + Len(wrong))
         ELSE <<by[i]>> \o SubBy(s, by, wrong, correct, k, i + 1)

\* one turn of the inner loop: record k applied to paragraph para
ApplyRecord(para, rep, k) ==
    LET wrong == Strip(rep.old)
        correct == Strip(rep.new)
    IN  IF wrong = <<>> \/ correct = <<>> THEN para
        ELSE [text |-> ReSub(para.text, wrong, correct),
              by |-> SubBy(para.text, para.by, wrong, correct, k, 1),
              hit |-> para.hit \/ \E i \in SubMatches(para.text, wrong, 1) :
                                     \E j \in i..(i + Len(wrong) - 1) : para.by[j] # 0]

\* the inner loop: records k..len(replacements) applied in turn
RECURSIVE ApplyRecords(_, _, _)
ApplyRecords(para, reps, k) ==
    IF k > Len(reps) THEN para
    ELSE ApplyRecords(ApplyRecord(para, reps[k], k), reps, k + 1)

\* doc.add_paragraph(line) for each line, then both loops
Regenerate(ft, reps) ==
    LET ps == Split(ft)
    IN  [p \in 1..Len(ps) |->
            ApplyRecords([text |-> ps[p], by |-> [j \in 1..Len(ps[p]) |-> 0], hit |-> FALSE],
                         reps, 1)]

\* the text of the saved document
DocText(d) == Join([p \in 1..Len(d) |-> d[p].text])

DownloadCorrected ==
    /\ pc \in {"idle", "done"}
    /\ passes < MaxPasses
    /\ \E ft \in {form.text},
          reps \in (IF passes = 0 THEN ReplacementLists ELSE {replacements}) :
          /\ final_text' = ft
          /\ replacements' = reps
          /\ passes' = passes + 1
          /\ prev_doc' = doc
          /\ IF Len(ft) > MAX_TEXT_CHARS
             THEN /\ pc' = "aborted"
                  /\ status' = 413
                  /\ UNCHANGED <<doc, rematched, form>>
             ELSE /\ pc' = "done"
                  /\ status' = 200
                  /\ doc' = Regenerate(ft, reps)
                  /\ rematched' = \E p \in 1..Len(doc') : doc'[p].hit
                  \* the client's next download sends the text of this document
                  /\ form' = [form EXCEPT !.text = DocText(doc')]
    /\ UNCHANGED <<mode, text, lines, final_html, results, calls,
                   lt_cache, groq_cache, groq_client>>

InitExport ==
    /\ pc = "idle"
    /\ status = 0
    /\ \E ft \in ExportTexts : form = [text |-> ft]
    /\ mode = ""
    /\ text = <<>>
    /\ lines = <<>>
    /\ final_html = <<>>
    /\ results = <<>>
    /\ calls = {}
    /\ lt_cache = <<>>
    /\ groq_cache = <<>>
    /\ groq_client = FALSE
    /\ final_text = <<>>
    /\ replacements = <<>>
    /\ doc = <<>>
    /\ rematched = FALSE
    /\ prev_doc = <<>>
    /\ passes = 0

NextExport == DownloadCorrected

SpecExport == InitExport /\ [][NextExport]_vars

-----------------------------------------------------------------------------
(* The requests of a behaviour *)

\* the texts made of at most n of the tokens of V
Texts(V, n) == {Concat(ts) : ts \in SeqsUpTo(V, n)}

\* tokens of lines the pipeline annotates
AnnotationTokens ==
    { <<"d","o","n","t">>, <<"s","u","o"," ","m","o","t","o">>, <<" ">>, <<"&">>, <<"\n">> }

\* tokens of lines the classifier tells apart
\* tokens of lines the classifier tells apart, and one of a long line
ReferenceTokens ==
    { <<"h","t","t","p">>, <<"w","w","w",".">>, <<"D","O","I">>, <<"[","1","9","9","9","]">>,
      <<"(","x","1","9","9","9",")">>,
      <<"a","u","d","i"," ","a","l","t","e","r","a","m"," ","p","a","r","t","u","m">>,
      <<" ">>, <<"&">>, <<"\n">> }

InitPipeline(V, n) ==
    /\ pc = "idle"
    /\ status = 0
    /\ \E t \in Texts(V, n) : form = [text |-> t]
    /\ mode = ""
    /\ text = <<>>
    /\ lines = <<>>
    /\ final_html = <<>>
    /\ results = <<>>
    /\ calls = {}
    /\ lt_cache = <<>>
    /\ groq_cache = <<>>
    /\ groq_client \in BOOLEAN
    /\ final_text = <<>>
    /\ replacements = <<>>
    /\ doc = <<>>
    /\ rematched = FALSE
    /\ prev_doc = <<>>
    /\ passes = 0

Init == InitPipeline(AnnotationTokens, MaxTokens)

InitVerbatim == InitPipeline(ReferenceTokens, MaxRefTokens)

Next ==
    \/ index
    \/ check_text
    \/ check_grammar
    \/ LineBlank
    \/ LineVerbatim
    \/ LineRewrite
    \/ LineWord

Spec == Init /\ [][Next]_vars

SpecVerbatim == InitVerbatim /\ [][Next]_vars





-----------------------------------------------------------------------------

(* Export regeneration (SpecExport) *)

\* C1: in a download, no replacement record matches text that an earlier
\* record of the same pass put into the paragraph: every record is applied
\* to the paragraph as it was, never to the output of the records before it.
C1_NoRematch == ~rematched

\* C2: a second download, of the text the first one produced and with the
\* same replacement list, produces the same paragraphs.
C2_Idempotent ==
    (passes >= 2 /\ pc = "done") =>
        [p \in 1..Len(doc) |-> doc[p].text] = [p \in 1..Len(prev_doc) |-> prev_doc[p].text]

-----------------------------------------------------------------------------
(* The pipeline (Spec) *)

WordLines == {i \in 1..Len(results) : results[i].kind = "word"}

\* the span elements of result r that wrap characters of the line itself
CleanSpans(r) ==
    {k \in 1..Len(r.spans) : ~r.spans[k].in_markup /\ r.spans[k].whole}

\* C3: whatever a source answers (a failure, or a response of the wrong
\* shape), the request is answered without an error: no failure of a source
\* reaches the caller.
C3_FailOpen == pc # "error" /\ status # 500

\* C4: every span element wraps an occurrence of its text in the line: not
\* characters of an escape entity, not characters of the markup of a span
\* element put before it.
C4_LiteralOccurrence ==
    \A i \in WordLines : \A k \in 1..Len(results[i].spans) :
        LET sp == results[i].spans[k]
        IN  /\ ~sp.in_markup
            /\ sp.whole
            /\ SubSeq(results[i].line, sp.from, sp.to) = sp.original

\* C5: when every suggester pair names text of the line, the span elements
\* of a line wrap ranges of the line that do not intersect, and none lies in
\* another, in its content or in its attributes.
C5_NonOverlap ==
    \A i \in WordLines :
        LET r == results[i]
        IN  (\A g \in 1..Len(r.groq_hits) :
                 Contains(LowerStr(r.line), LowerStr(r.groq_hits[g].wrong)))
            => /\ \A k \in 1..Len(r.spans) : ~r.spans[k].in_markup /\ ~r.spans[k].nested
               /\ \A k, l \in 1..Len(r.spans) :
                     k # l => \/ r.spans[k].to < r.spans[l].from
                              \/ r.spans[l].to < r.spans[k].from

\* C6: when one phrase is flagged in a line, every whole-word occurrence of
\* it in the line is wrapped by a span element of its own.
C6_EachOccurrence ==
    \A i \in WordLines :
        LET r == results[i]
        IN  Len(r.combined) = 1 =>
                \A p \in 1..Len(r.line) :
                    WordMatchAt(r.line, r.combined[1].original, p) =>
                        \E k \in CleanSpans(r) :
                            /\ r.spans[k].from = p
                            /\ r.spans[k].to = p + Len(r.combined[1].original) - 1

\* C7: a line with a grammar-service match on a substring within the line
\* and a dictionary hit on a phrase apart from it has a span element for
\* each, whatever the suggester answers.
C7_GrammarSpanAnnotated ==
    \A i \in WordLines :
        LET r == results[i]
        IN  \A f \in 1..Len(r.lt_wrong_words), h \in 1..Len(r.legal_hits) :
                LET m == r.lt_wrong_words[f].m
                    lo == m.offset + 1
                    hi == m.offset + m.length
                    q == ReSearchWord(r.line, r.legal_hits[h].wrong)
                    qe == q + Len(r.legal_hits[h].wrong) - 1
                IN  ( /\ Strip(r.line) = r.line
                      /\ hi <= Len(r.line)
                      /\ Strip(r.lt_wrong_words[f].word) = r.lt_wrong_words[f].word
                      /\ (hi < q \/ qe < lo) )
                    => /\ \E k \in CleanSpans(r) : r.spans[k].from = lo /\ r.spans[k].to = hi
                       /\ \E k \in CleanSpans(r) : r.spans[k].from = q /\ r.spans[k].to = qe

\* C8: every substring flagged from a grammar-service match comes from a
\* match that ends within the line, and is the substring the match names in
\* the sentence that was sent to the service.
C8_BoundCheck ==
    \A i \in 1..Len(results) : \A f \in 1..Len(results[i].lt_wrong_words) :
        LET x == results[i].lt_wrong_words[f]
        IN  /\ x.m.offset + x.m.length <= Len(results[i].line)
            /\ x.word = Slice(Strip(results[i].line), x.m.offset, x.m.length)

-----------------------------------------------------------------------------
(* The classifier and the size limit (SpecVerbatim) *)

\* the lines the claim names: empty or whitespace only, holding a URL-like
\* token, holding "doi" in any case, a bracketed numeral, a parenthesis with
\* a four-digit year
AllWhitespace(l) == \A i \in 1..Len(l) : l[i] \in Whitespace

HoldsUrl(l) ==
    \E i \in 1..(Len(l) - 3) :
        \/ SubSeq(l, i, i + 3) = <<"h","t","t","p">>
        \/ SubSeq(l, i, i + 3) = <<"w","w","w",".">>

HoldsDoi(l) ==
    \E i \in 1..(Len(l) - 2) : <<Lower(l[i]), Lower(l[i + 1]), Lower(l[i + 2])>> = <<"d","o","i">>

\* l is whitespace, then open, then a body that fits, then close, then whitespace
Enclosed(l, open, close, Fits(_)) ==
    \E a, b \in 1..Len(l) :
        /\ a < b
        /\ AllWhitespace(SubSeq(l, 1, a - 1))
        /\ AllWhitespace(SubSeq(l, b + 1, Len(l)))
        /\ l[a] = open
        /\ l[b] = close
        /\ Fits(SubSeq(l, a + 1, b - 1))

IsNumeral(body) == body # <<>> /\ \A i \in 1..Len(body) : body[i] \in Digits

HoldsYear(body) ==
    \E i \in 2..(Len(body) - 3) : \A k \in 0..3 : body[i + k] \in Digits

NamedVerbatim(l) ==
    \/ AllWhitespace(l)
    \/ HoldsUrl(l)
    \/ HoldsDoi(l)
    \/ Enclosed(l, "[", "]", IsNumeral)
    \/ Enclosed(l, "(", ")", HoldsYear)

NoCallFor(i) == \A c \in calls : c[2] # i

C10_OversizedRejected ==
    (pc # "idle" /\ Len(text) > MAX_TEXT_CHARS) =>
        /\ pc = "aborted"
        /\ status = 413
        /\ calls = {}
        /\ lines = <<>>
        /\ results = <<>>
        /\ final_html = <<>>
        /\ DOMAIN lt_cache = {}
        /\ DOMAIN groq_cache = {}

\* a request that was rejected for its size
C10_Witness == pc = "aborted" /\ status = 413 /\ Len(text) > MAX_TEXT_CHARS

=============================================================================
